---- MODULE Spec2Model ----
(***************************************************************************)
(* RSS feed synchronisation engine of the podcast platform.                *)
(*                                                                         *)
(*   pkg/content/sync/service.go   service.SyncPodcast (the coordinator)   *)
(*   pkg/content/rss/parser.go     parser.ParseFeed and its helpers        *)
(*   cmd/content-service/main.go   one service instance shared by all      *)
(*                                 triggers                                *)
(*                                                                         *)
(* Every invocation of SyncPodcast is a process that advances from one     *)
(* suspension point (store call, network fetch) to the next.  Times are    *)
(* integers; 0 is Go's zero time.Time and SQL NULL for last_synced_at.     *)
(***************************************************************************)
EXTENDS Integers, Sequences, FiniteSets, TLC

\* ------------------------------------------------------------------ bounds
\* number of SyncPodcast calls issued in one behaviour: by concurrent
\* callers, and by one caller at a time
MaxCalls == 2
MaxSeqCalls == 3
\* ... and by one caller of one podcast whose feed changes between calls
MaxReconCalls == 2
\* ... and by the manual trigger while a sync of all podcasts runs
MaxManualCalls == 1
\* ... and by one caller whose feed has items of every kind
MaxParseCalls == 1
\* length of the itunes:duration texts
MaxDurationLen == 5
\* passes of the periodic task in one behaviour
MaxPasses == 2

\* ----------------------------------------------------------------- domains
Podcasts == {"p1", "p2", "p3"}
Invocations == {"w1", "w2"}

\* a nil pointer / an unset local; NoPodcast is the unset podcastID
None == [none |-> TRUE]
NoPodcast == "none"

\* ------------------------------------------------------- parser.go helpers
\* Strings the parser takes apart are sequences of one-character strings.
Digits == {"0", "1", "2", "3", "4", "5", "6", "7", "8", "9"}

DigitVal(c) ==
    CASE c = "0" -> 0 [] c = "1" -> 1 [] c = "2" -> 2 [] c = "3" -> 3
      [] c = "4" -> 4 [] c = "5" -> 5 [] c = "6" -> 6 [] c = "7" -> 7
      [] c = "8" -> 8 [] c = "9" -> 9

RECURSIVE DecVal(_)
DecVal(s) ==
    IF s = <<>> THEN 0
    ELSE 10 * DecVal(SubSeq(s, 1, Len(s) - 1)) + DigitVal(s[Len(s)])

\* strconv.Atoi: an optional sign followed by at least one decimal digit.
\* On a syntax error the value is 0 (the callers ignore the error).
Atoi(s) ==
    LET signed == s # <<>> /\ s[1] \in {"+", "-"}
        body   == IF signed THEN Tail(s) ELSE s
        ok     == body # <<>> /\ \A i \in 1..Len(body) : body[i] \in Digits
    IN  [ok |-> ok,
         val |-> IF ~ok THEN 0
                 ELSE IF signed /\ s[1] = "-" THEN 0 - DecVal(body)
                 ELSE DecVal(body)]

\* strings.Split(s, ":")
RECURSIVE SplitColon(_)
SplitColon(s) ==
    IF \A i \in 1..Len(s) : s[i] # ":" THEN <<s>>
    ELSE LET k == CHOOSE i \in 1..Len(s) :
                      s[i] = ":" /\ \A j \in 1..(i - 1) : s[j] # ":"
         IN  <<SubSeq(s, 1, k - 1)>> \o SplitColon(SubSeq(s, k + 1, Len(s)))

parseDuration(duration) ==
    IF duration = <<>> THEN 0
    ELSE IF Atoi(duration).ok THEN Atoi(duration).val
    ELSE LET parts == SplitColon(duration)
         IN  IF Len(parts) = 3
             THEN Atoi(parts[1]).val * 3600 + Atoi(parts[2]).val * 60
                  + Atoi(parts[3]).val
             ELSE IF Len(parts) = 2
             THEN Atoi(parts[1]).val * 60 + Atoi(parts[2]).val
             ELSE 0

\* A publication-date string is represented by the layout it is written in
\* and the instant it denotes; layout "none" is text in no known layout and
\* EmptyDate is the empty string.
PubDateFormats ==
    <<"RFC1123Z", "RFC1123", "RFC822Z", "RFC822",
      "Mon, 02 Jan 2006 15:04:05 -0700", "Mon, 2 Jan 2006 15:04:05 -0700",
      "2006-01-02T15:04:05-07:00", "2006-01-02 15:04:05">>

EmptyDate == [layout |-> "", t |-> 0]

parsePubDate(pubDate) ==
    IF pubDate = EmptyDate THEN [ok |-> FALSE, t |-> 0]
    ELSE IF \E i \in 1..Len(PubDateFormats) : PubDateFormats[i] = pubDate.layout
         THEN [ok |-> TRUE, t |-> pubDate.t]
         ELSE [ok |-> FALSE, t |-> 0]

\* strings.ToLower on the spellings of itunes:explicit that feeds use
ToLower(s) ==
    CASE s = "Yes" -> "yes" [] s = "YES" -> "yes" [] s = "True" -> "true"
      [] s = "TRUE" -> "true" [] s = "No" -> "no" [] OTHER -> s

parseBooleanString(s) ==
    LET l == ToLower(s) IN l = "yes" \/ l = "true" \/ l = "1"

\* cleanHTMLContent on the description texts of the model: <br> becomes a
\* newline, tags are removed, the six entities are decoded, the result is
\* trimmed.  Text without markup, entities or outer blanks is unchanged.
cleanHTMLContent(content) ==
    CASE content = "<p>d1</p>" -> "d1"
      [] content = " d1 "      -> "d1"
      [] content = "d1<br>"    -> "d1"
      [] content = "a&amp;b"   -> "a&b"
      [] OTHER                 -> content

\* *int: nil or a pointer to a value
NilInt == [isNil |-> TRUE, v |-> 0]
IntPtr(n) == [isNil |-> FALSE, v |-> n]

\* The items of result.Items built by the loop of ParseFeed over
\* feed.Channel.Items; cover is result.CoverImageURL, now is time.Now().
ParseItem(item, cover, now) ==
    LET pd == parsePubDate(item.PubDate)
        en == Atoi(item.ItunesEpisode)
        sn == Atoi(item.ItunesSeason)
    IN  [Title           |-> item.Title,
         GUID            |-> item.Guid,
         AudioURL        |-> item.EnclosureURL,
         Description     |-> cleanHTMLContent(
                                IF item.Summary # "" THEN item.Summary
                                ELSE IF item.Description # "" THEN item.Description
                                ELSE IF item.Content # "" THEN item.Content
                                ELSE ""),
         Duration        |-> parseDuration(item.Duration),
         PublicationDate |-> IF pd.ok THEN pd.t ELSE now,
         CoverImageURL   |-> IF item.ItunesImage # "" THEN item.ItunesImage
                             ELSE cover,
         EpisodeNumber   |-> IF item.ItunesEpisode # <<>> /\ en.ok
                             THEN IntPtr(en.val) ELSE NilInt,
         SeasonNumber    |-> IF item.ItunesSeason # <<>> /\ sn.ok
                             THEN IntPtr(sn.val) ELSE NilInt]

\* the loop without the check of line 206
RECURSIVE ParseItemsUnfiltered(_, _, _)
ParseItemsUnfiltered(items, cover, now) ==
    IF items = <<>> THEN <<>>
    ELSE <<ParseItem(Head(items), cover, now)>>
         \o ParseItemsUnfiltered(Tail(items), cover, now)

RECURSIVE ParseItems(_, _, _)
ParseItems(items, cover, now) ==
    IF items = <<>> THEN <<>>
    ELSE IF Head(items).EnclosureURL = "" \/ Head(items).Guid = ""
         THEN ParseItems(Tail(items), cover, now)
         ELSE <<ParseItem(Head(items), cover, now)>>
              \o ParseItems(Tail(items), cover, now)

\* the check of the channel title (lines 154-156) left out
FeedErrorTitleUnchecked(resp) ==
    IF resp.doErr THEN "failed to fetch RSS feed"
    ELSE IF resp.status # 200 THEN "feed request failed with status"
    ELSE IF resp.readErr THEN "failed to read feed body"
    ELSE IF ~resp.xmlOk THEN "failed to parse feed XML"
    ELSE ""

\* parser.ParseFeed from the HTTP response on.  resp is what the remote
\* server answered: a transport error, a status, whether the body decodes,
\* and the decoded rssFeed.Channel.  FeedError is the error of lines
\* 128-156, "" when there is none.
FeedError(resp) ==
    IF resp.doErr THEN "failed to fetch RSS feed"
    ELSE IF resp.status # 200 THEN "feed request failed with status"
    ELSE IF resp.readErr THEN "failed to read feed body"
    ELSE IF ~resp.xmlOk THEN "failed to parse feed XML"
    ELSE IF resp.channel.Title = ""
    THEN "feed has no content or is not a valid podcast feed"
    ELSE ""

\* lines 158-265: the conversion of the decoded channel
ConvertChannel(ch, now) ==
    LET cover == IF ch.ItunesImage # "" THEN ch.ItunesImage
                 ELSE IF ch.ImageURL # "" THEN ch.ImageURL ELSE ""
        main  == ch.Categories[1]
    IN  [Title         |-> ch.Title,
         Description   |-> ch.Description,
         Language      |-> ch.Language,
         WebsiteURL    |-> ch.Link,
         Explicit      |-> parseBooleanString(ch.Explicit),
         Category      |-> IF Len(ch.Categories) > 0
                           THEN IF main.AttrText # "" THEN main.AttrText
                                ELSE IF main.Text # "" THEN main.Text
                                ELSE ""
                           ELSE "",
         Subcategory   |-> IF Len(ch.Categories) > 0 /\ main.Sub # ""
                           THEN main.Sub ELSE "",
         Author        |-> IF ch.Author # "" THEN ch.Author
                           ELSE IF ch.ItunesAuthor # "" THEN ch.ItunesAuthor
                           ELSE IF ch.OwnerName # "" THEN ch.OwnerName
                           ELSE ch.Title,
         CoverImageURL |-> cover,
         Items         |-> ParseItems(ch.Items, cover, now)]

ParseFeed(resp, now) ==
    IF FeedError(resp) # ""
    THEN [err |-> FeedError(resp), feed |-> None]
    ELSE [err |-> "", feed |-> ConvertChannel(resp.channel, now)]

\* ------------------------------------------------- remote feed responses
D1 == [layout |-> "RFC1123Z", t |-> 100]
BadDate == [layout |-> "none", t |-> 0]

RawItem(guid, title, pubDate) ==
    [Title |-> title, Description |-> "", Guid |-> guid, PubDate |-> pubDate,
     Duration |-> <<"9", "0">>, Summary |-> "<p>d1</p>", EnclosureURL |-> "e1",
     ItunesImage |-> "", ItunesEpisode |-> <<"1">>, ItunesSeason |-> <<>>,
     Content |-> ""]

RawChannel(title, items) ==
    [Title |-> title, Description |-> "cd", Link |-> "", Language |-> "ar",
     Explicit |-> "Yes",
     Categories |-> <<[AttrText |-> "", Text |-> "News", Sub |-> ""]>>,
     Author |-> "", ItunesAuthor |-> "", OwnerName |-> "",
     ItunesImage |-> "", ImageURL |-> "img", Items |-> items]

Response(status, channel) ==
    [doErr |-> FALSE, status |-> status, readErr |-> FALSE, xmlOk |-> TRUE,
     channel |-> channel]

OkResponses ==
    { Response(200, RawChannel("T1", <<RawItem("g1", "a", D1)>>)),
      Response(200, RawChannel("T1", <<RawItem("g1", "a", BadDate)>>)),
      Response(200, RawChannel("T1", <<RawItem("g1", "a", D1),
                                       RawItem("g1", "b", D1)>>)),
      Response(200, RawChannel("T2", <<RawItem("", "x", D1),
                                       RawItem("g2", "b", D1)>>)) }

BadResponses ==
    { [Response(200, RawChannel("T1", <<>>)) EXCEPT !.doErr = TRUE],
      Response(404, RawChannel("", <<>>)),
      [Response(200, RawChannel("T1", <<>>)) EXCEPT !.readErr = TRUE],
      [Response(200, RawChannel("", <<>>)) EXCEPT !.xmlOk = FALSE],
      Response(200, RawChannel("", <<RawItem("g1", "a", D1)>>)) }

Responses == OkResponses \cup BadResponses

\* the responses met where invocations run concurrently
FewResponses ==
    { Response(200, RawChannel("T1", <<RawItem("g1", "a", D1)>>)),
      Response(404, RawChannel("", <<>>)) }

\* the responses of a feed that changes from one sync to the next: two
\* episodes; one retitled, one kept, one new; the optional channel elements
\* and itunes:explicit left out; the channel described anew; not found
ReconResponses ==
    { Response(200, RawChannel("T1", <<RawItem("g1", "a", D1),
                                       RawItem("g2", "b", D1)>>)),
      Response(200, RawChannel("T1", <<RawItem("g1", "c", D1),
                                       RawItem("g2", "b", D1),
                                       RawItem("g3", "d", D1)>>)),
      Response(200, [RawChannel("T1", <<RawItem("g1", "a", D1)>>)
                       EXCEPT !.Description = "", !.Language = "",
                              !.Explicit = "", !.Categories = <<>>,
                              !.ImageURL = ""]),
      Response(200, [RawChannel("T2", <<RawItem("g1", "a", D1)>>)
                       EXCEPT !.Link = "w1", !.Explicit = "no",
                              !.Author = "A1",
                              !.Categories = <<[AttrText |-> "Tech",
                                                Text |-> "", Sub |-> "AI"]>>]),
      Response(404, RawChannel("", <<>>)) }

\* items as feeds carry them: well formed; with a date in no known layout
\* or none; a duration that is text, minutes and seconds, or has a part
\* that is no number; numbering that is no number, or absent; no guid; no
\* enclosure
AnomalyItems ==
    { RawItem("g1", "a", D1),
      RawItem("g2", "b", D1),
      RawItem("g1", "a", BadDate),
      RawItem("g2", "b", EmptyDate),
      [RawItem("g1", "a", D1) EXCEPT !.Duration = <<"x">>],
      [RawItem("g2", "b", D1) EXCEPT !.Duration = <<"1", ":", "3", "0">>],
      [RawItem("g1", "a", D1) EXCEPT !.Duration = <<"x", ":", "3", "0">>],
      [RawItem("g1", "a", D1) EXCEPT !.ItunesEpisode = <<"x">>,
                                     !.ItunesSeason = <<"2">>],
      [RawItem("g2", "b", D1) EXCEPT !.ItunesEpisode = <<>>,
                                     !.ItunesSeason = <<"x">>],
      RawItem("", "c", D1),
      [RawItem("g3", "c", D1) EXCEPT !.EnclosureURL = ""] }

\* the feeds of one or two such items
ParseResponses ==
    {Response(200, RawChannel("T1", <<a>>)) : a \in AnomalyItems}
    \cup {Response(200, RawChannel("T1", <<a, b>>)) : a, b \in AnomalyItems}

\* every itunes:duration text of digits, colons and a letter
DurationStrings ==
    UNION {[1..n -> {"0", "1", ":", "x"}] : n \in 0..MaxDurationLen}

\* the feeds of one item with such a duration
DurationResponses ==
    {Response(200, RawChannel("T1", <<[RawItem("g1", "a", D1)
                                         EXCEPT !.Duration = d]>>)) :
        d \in DurationStrings}

\* ------------------------------------------------------------------ store
PodcastRow(id, rssUrl) ==
    [ID |-> id, PodcasterID |-> "owner", Title |-> "T0", Description |-> "cd0",
     CoverImageURL |-> "", RSSUrl |-> rssUrl, WebsiteURL |-> "w0",
     Language |-> "ar", Author |-> "A0", Category |-> "", Subcategory |-> "",
     Explicit |-> FALSE, Status |-> "active", LastSyncedAt |-> 0]

VARIABLES
    syncMutex,   \* service.syncMutex: the keys stored in the sync.Map
    podcasts,    \* table podcasts: podcast id -> committed row
    episodes,    \* table episodes: podcast id -> committed rows, by insertion
    syncLogs,    \* table rss_sync_logs: podcast id -> entries, oldest first
    clock,       \* wall clock read by time.Now()
    pc,          \* position of each SyncPodcast invocation
    pod,         \* its podcastID argument
    podcast,     \* its local podcast (row loaded by GetPodcastByID)
    fetched,     \* the response its ParseFeed call received
    feed,        \* its local feed
    tx,          \* its transaction
    existing,    \* its local existingEpisodes
    idx,         \* position of its loop over feed.Items
    counts,      \* its episodesAdded and episodesUpdated
    defers,      \* its stack of deferred calls
    ret,         \* what it returns to its caller
    before,      \* store contents of its podcast when it acquired the guard
    lastSynced,  \* podcast id -> response of the latest committed sync
    syncAll,     \* the SyncAllPodcasts call: its list, position and results
    ctx,         \* the context.Context each invocation was called with
    owner,       \* the owner's UpdatePodcast call: its request and its copy
    periodic     \* the background goroutine of main.go and its ticker

vars == <<syncMutex, podcasts, episodes, syncLogs, clock, pc, pod, podcast,
          fetched, feed, tx, existing, idx, counts, defers, ret, before,
          lastSynced, syncAll, ctx, owner, periodic>>

store == <<podcasts, episodes, syncLogs>>
locals == <<podcast, fetched, feed, tx, existing, idx, counts>>
callers == <<syncAll, ctx, owner, periodic>>

NoTx == [state |-> "none", writes |-> <<>>]
NoCounts == [added |-> 0, updated |-> 0]
NoRet == [err |-> "", result |-> None]
NoSyncAll == [state |-> "idle", podcasts |-> <<>>, i |-> 0, calls |-> <<>>,
              results |-> <<>>, err |-> ""]
NoOwner == [state |-> "idle", req |-> None, row |-> None, during |-> 0]
Asleep == [pc |-> "sleep", tick |-> FALSE, passes |-> 0, running |-> {}]

Init ==
    /\ syncMutex = {}
    /\ podcasts = [p \in Podcasts |->
                     PodcastRow(p, IF p = "p3" THEN "" ELSE "url")]
    /\ episodes = [p \in Podcasts |-> <<>>]
    /\ syncLogs = [p \in Podcasts |-> <<>>]
    /\ clock = 1
    /\ pc = [w \in Invocations |-> "idle"]
    /\ pod = [w \in Invocations |-> NoPodcast]
    /\ podcast = [w \in Invocations |-> None]
    /\ fetched = [w \in Invocations |-> None]
    /\ feed = [w \in Invocations |-> None]
    /\ tx = [w \in Invocations |-> NoTx]
    /\ existing = [w \in Invocations |-> <<>>]
    /\ idx = [w \in Invocations |-> 0]
    /\ counts = [w \in Invocations |-> NoCounts]
    /\ defers = [w \in Invocations |-> <<>>]
    /\ ret = [w \in Invocations |-> NoRet]
    /\ before = [w \in Invocations |-> None]
    /\ lastSynced = [p \in Podcasts |-> None]
    /\ syncAll = NoSyncAll
    /\ ctx = [w \in Invocations |-> "live"]
    /\ owner = NoOwner
    /\ periodic = Asleep

\* ---------------------------------------------- service.go: the guard
\* one key for every podcast
GuardKeyShared(podcastID) == "all"

\* podcastID.String(), the key of the guard
GuardKey(podcastID) == podcastID

\* Store in place of LoadOrStore: the key is set, never tested
LoadOrStoreUntested(m, key) == [loaded |-> FALSE, m |-> m \cup {key}]

\* sync.Map.LoadOrStore(key, true): one atomic test-and-set
LoadOrStore(m, key) == [loaded |-> key \in m, m |-> m \cup {key}]

\* the defer placed above the check of line 58
DefersBeforeGuard(loaded) == <<"unlock">>

\* the defer of line 61 left out
DefersNothing(loaded) == <<>>

\* The deferred calls registered once control is past line 61: none on the
\* early return of a rejected request, the guard's Delete otherwise.
DefersAfterGuard(loaded) == IF loaded THEN <<>> ELSE <<"unlock">>

\* Running the deferred calls at return, last registered first.  Rollback
\* touches the transaction only; Delete removes the key from the guard.
RECURSIVE RunDefers(_, _, _)
RunDefers(stack, m, key) ==
    IF stack = <<>> THEN m
    ELSE LET top == stack[Len(stack)]
             rest == SubSeq(stack, 1, Len(stack) - 1)
         IN  RunDefers(rest, IF top = "unlock" THEN m \ {key} ELSE m, key)

\* ------------------------------------------ service.go: reconciliation
\* updatedPodcast built as a new models.Podcast filled from the feed
MergePodcastFresh(p, f, now) ==
    [k \in DOMAIN p |->
        IF k \in DOMAIN f THEN f[k]
        ELSE IF k = "LastSyncedAt" THEN now
        ELSE IF k = "ID" THEN p.ID ELSE ""]

\* the time of the sync recorded only when a metadata field changed
MergePodcastStampIfChanged(p, f, now) ==
    LET m == [k \in DOMAIN p |->
                IF k \in {"Title", "Description", "Language", "Author",
                          "CoverImageURL", "WebsiteURL", "Category",
                          "Subcategory"}
                THEN IF f[k] # "" /\ f[k] # p[k] THEN f[k] ELSE p[k]
                ELSE IF k = "Explicit" THEN f[k] ELSE p[k]]
    IN  [m EXCEPT !.LastSyncedAt = IF m # p THEN now ELSE @]

\* updatedPodcast of lines 96-149
MergePodcast(p, f, now) ==
    [p EXCEPT
       !.Title         = IF f.Title # "" /\ f.Title # p.Title
                         THEN f.Title ELSE @,
       !.Description   = IF f.Description # "" /\ f.Description # p.Description
                         THEN f.Description ELSE @,
       !.Language      = IF f.Language # "" /\ f.Language # p.Language
                         THEN f.Language ELSE @,
       !.Author        = IF f.Author # "" /\ f.Author # p.Author
                         THEN f.Author ELSE @,
       !.CoverImageURL = IF f.CoverImageURL # "" /\ f.CoverImageURL # p.CoverImageURL
                         THEN f.CoverImageURL ELSE @,
       !.WebsiteURL    = IF f.WebsiteURL # "" /\ f.WebsiteURL # p.WebsiteURL
                         THEN f.WebsiteURL ELSE @,
       !.Category      = IF f.Category # "" /\ f.Category # p.Category
                         THEN f.Category ELSE @,
       !.Subcategory   = IF f.Subcategory # "" /\ f.Subcategory # p.Subcategory
                         THEN f.Subcategory ELSE @,
       !.Explicit      = IF f.Explicit # p.Explicit THEN f.Explicit ELSE @,
       !.LastSyncedAt  = now]

\* a lookup that ignores the key: the first loaded row
ExistingIndexAny(rows, guid) == IF rows # <<>> THEN 1 ELSE 0

\* existingEpisodeMap[guid] of lines 168-172 as an index into the loaded
\* rows (0: no entry); a later row with the same GUID replaces an earlier.
ExistingIndex(rows, guid) ==
    IF \E i \in 1..Len(rows) : rows[i].GUID = guid
    THEN CHOOSE i \in 1..Len(rows) :
             /\ rows[i].GUID = guid
             /\ \A j \in (i + 1)..Len(rows) : rows[j].GUID # guid
    ELSE 0

\* every matched item taken as changed
DiffEpisodeAlways(e, item) ==
    [updated |-> TRUE, episode |-> [e EXCEPT !.Title = item.Title]]

\* updated and updatedEpisode of lines 188-229
DiffEpisode(e, item) ==
    LET title == item.Title # "" /\ item.Title # e.Title
        descr == item.Description # "" /\ item.Description # e.Description
        audio == item.AudioURL # "" /\ item.AudioURL # e.AudioURL
        dur   == item.Duration > 0 /\ item.Duration # e.Duration
        cover == item.CoverImageURL # "" /\ item.CoverImageURL # e.CoverImageURL
        date  == item.PublicationDate # 0
                 /\ item.PublicationDate # e.PublicationDate
        epnum == ~item.EpisodeNumber.isNil
                 /\ (e.EpisodeNumber.isNil
                     \/ item.EpisodeNumber.v # e.EpisodeNumber.v)
        senum == ~item.SeasonNumber.isNil
                 /\ (e.SeasonNumber.isNil
                     \/ item.SeasonNumber.v # e.SeasonNumber.v)
    IN  [updated |-> title \/ descr \/ audio \/ dur \/ cover \/ date
                     \/ epnum \/ senum,
         episode |->
           [e EXCEPT
              !.Title           = IF title THEN item.Title ELSE @,
              !.Description     = IF descr THEN item.Description ELSE @,
              !.AudioURL        = IF audio THEN item.AudioURL ELSE @,
              !.Duration        = IF dur THEN item.Duration ELSE @,
              !.CoverImageURL   = IF cover THEN item.CoverImageURL ELSE @,
              !.PublicationDate = IF date THEN item.PublicationDate ELSE @,
              !.EpisodeNumber   = IF epnum THEN item.EpisodeNumber ELSE @,
              !.SeasonNumber    = IF senum THEN item.SeasonNumber ELSE @]]

\* newEpisode of lines 242-257
NewEpisode(item) ==
    [Title |-> item.Title, Description |-> item.Description,
     AudioURL |-> item.AudioURL, Duration |-> item.Duration,
     CoverImageURL |-> item.CoverImageURL,
     PublicationDate |-> item.PublicationDate, GUID |-> item.GUID,
     EpisodeNumber |-> item.EpisodeNumber, SeasonNumber |-> item.SeasonNumber,
     Status |-> "active"]

\* ------------------------------------------------ the store's transaction
\* A transaction buffers its writes; Commit applies them together.  A row
\* of episodes is identified by its position (rows are never deleted).
RECURSIVE ApplyWrites(_, _)
ApplyWrites(db, writes) ==
    IF writes = <<>> THEN db
    ELSE LET wr == Head(writes)
             nxt == CASE wr.op = "podcast" ->
                          [db EXCEPT !.podcast =
                             [@ EXCEPT !.Title = wr.row.Title,
                                       !.Description = wr.row.Description,
                                       !.CoverImageURL = wr.row.CoverImageURL,
                                       !.WebsiteURL = wr.row.WebsiteURL,
                                       !.Language = wr.row.Language,
                                       !.Author = wr.row.Author,
                                       !.Category = wr.row.Category,
                                       !.Subcategory = wr.row.Subcategory,
                                       !.Explicit = wr.row.Explicit,
                                       !.Status = wr.row.Status,
                                       !.LastSyncedAt = wr.row.LastSyncedAt]]
                      [] wr.op = "update" ->
                          [db EXCEPT !.episodes = [@ EXCEPT ![wr.id] = wr.row]]
                      [] wr.op = "insert" ->
                          [db EXCEPT !.episodes = Append(@, wr.row)]
         IN  ApplyWrites(nxt, Tail(writes))

\* what a statement inside the transaction sees of one podcast
TxView(t, p) ==
    ApplyWrites([podcast |-> podcasts[p], episodes |-> episodes[p]], t.writes)

\* table episodes without the constraint
ViolatesUniqueNever(t, p, row) == FALSE

\* UNIQUE (podcast_id, guid) of table episodes
ViolatesUnique(t, p, row) ==
    \E i \in 1..Len(TxView(t, p).episodes) :
        TxView(t, p).episodes[i].GUID = row.GUID

UpdatePodcastTx(t, row) ==
    [t EXCEPT !.writes = Append(@, [op |-> "podcast", row |-> row])]

UpdateEpisodeTx(t, id, row) ==
    [t EXCEPT !.writes = Append(@, [op |-> "update", id |-> id, row |-> row])]

CreateEpisodeTx(t, row) ==
    [t EXCEPT !.writes = Append(@, [op |-> "insert", row |-> row])]

\* a failed statement leaves the transaction aborted: every later statement
\* and the commit fail
Abort(t) == [t EXCEPT !.state = "aborted"]

\* the rows of one podcast in the committed store
Rows(p) == [podcast |-> podcasts[p], episodes |-> episodes[p]]

\* logSyncFailure / logSyncSuccess: one row appended to rss_sync_logs
SyncLogEntry(status, added, updated, message, now) ==
    [status |-> status, episodes_added |-> added,
     episodes_updated |-> updated, error_message |-> message,
     created_at |-> now]

logSyncFailure(logs, p, added, updated, message, now) ==
    [logs EXCEPT ![p] = Append(@, SyncLogEntry("failure", added, updated,
                                               message, now))]

logSyncSuccess(logs, p, added, updated, now) ==
    [logs EXCEPT ![p] = Append(@, SyncLogEntry("success", added, updated,
                                               "", now))]

\* ------------------------------------------------- service.SyncPodcast
Running == {"load", "fetch", "begin", "meta", "episodes", "item", "commit"}
Ended == {"committed", "failed", "panicked"}

\* models.RSSFeedSyncResult
SyncResult(success, added, updated, message) ==
    [Success |-> success, EpisodesAdded |-> added,
     EpisodesUpdated |-> updated, ErrorMessage |-> message]

\* s.repo.UpdatePodcast in place of UpdatePodcastTx: written outside the
\* transaction
WritePodcastOutsideTx(t, db, row) ==
    [tx |-> t, podcasts |-> [db EXCEPT ![row.ID] = row]]

\* s.repo.UpdatePodcastTx(ctx, tx, &updatedPodcast): where the write goes
WritePodcast(t, db, row) ==
    [tx |-> UpdatePodcastTx(t, row), podcasts |-> db]

\* s.repo.UpdateEpisodeTx(ctx, tx, &updatedEpisode)
WriteEpisode(t, db, p, id, row) ==
    [tx |-> UpdateEpisodeTx(t, id, row), episodes |-> db]

\* s.repo.CreateEpisode in place of CreateEpisodeTx
WriteNewEpisodeOutsideTx(t, db, p, row) ==
    [tx |-> t, episodes |-> [db EXCEPT ![p] = Append(@, row)]]

\* s.repo.CreateEpisodeTx(ctx, tx, newEpisode)
WriteNewEpisode(t, db, p, row) ==
    [tx |-> CreateEpisodeTx(t, row), episodes |-> db]

\* a rejection recorded like a failed attempt
RejectLogged(w, p) ==
    /\ pc' = [pc EXCEPT ![w] = "rejected"]
    /\ ret' = [ret EXCEPT ![w] = [err |-> "sync already in progress",
                                  result |-> None]]
    /\ before' = before
    /\ syncLogs' = logSyncFailure(syncLogs, p, 0, 0,
                                  "sync already in progress", clock)
    /\ UNCHANGED <<podcasts, episodes>>

\* lines 58-60: the guard is taken, the request returns at once
Reject(w, p) ==
    /\ pc' = [pc EXCEPT ![w] = "rejected"]
    /\ ret' = [ret EXCEPT ![w] = [err |-> "sync already in progress",
                                  result |-> None]]
    /\ before' = before
    /\ UNCHANGED store

\* line 61 on: the invocation holds the guard
Acquire(w, p) ==
    /\ pc' = [pc EXCEPT ![w] = "load"]
    /\ ret' = [ret EXCEPT ![w] = NoRet]
    /\ before' = [before EXCEPT ![w] =
                    [podcast |-> podcasts[p], episodes |-> episodes[p],
                     nlogs |-> Len(syncLogs[p]),
                     lastSynced |-> lastSynced[p]]]
    /\ UNCHANGED store

\* lines 56-61: a caller (manual endpoint, background sync, sync-all) calls
\* SyncPodcast(ctx, p); limit bounds the number of calls of a behaviour
SyncPodcast(w, p, limit) ==
    /\ pc[w] = "idle"
    /\ clock <= limit
    /\ clock' = clock + 1      \* a call is later than every earlier call
    /\ pod' = [pod EXCEPT ![w] = p]
    /\ LET r == LoadOrStore(syncMutex, GuardKey(p))
       IN  /\ syncMutex' = r.m
           /\ defers' = [defers EXCEPT ![w] = DefersAfterGuard(r.loaded)]
           /\ IF r.loaded THEN Reject(w, p) ELSE Acquire(w, p)
    /\ UNCHANGED <<locals, lastSynced>>

\* the transaction begun right after the load, the feed fetched inside it
\* a load that goes on to the fetch whatever the row's RSSUrl
LoadPodcastNoURLCheck(w) ==
    /\ pc[w] = "load"
    /\ \E ok \in BOOLEAN :
         IF ~ok
         THEN /\ pc' = [pc EXCEPT ![w] = "failed"]
              /\ ret' = [ret EXCEPT ![w] = [err |-> "failed to get podcast",
                                            result |-> None]]
              /\ podcast' = podcast
         ELSE /\ podcast' = [podcast EXCEPT ![w] = podcasts[pod[w]]]
              /\ pc' = [pc EXCEPT ![w] = "fetch"]
              /\ ret' = ret
    /\ UNCHANGED <<syncMutex, store, clock, pod, fetched, feed, tx, existing,
                   idx, counts, defers, before, lastSynced>>

LoadPodcastThenBegin(w) ==
    /\ pc[w] = "load"
    /\ podcast' = [podcast EXCEPT ![w] = podcasts[pod[w]]]
    /\ pc' = [pc EXCEPT ![w] = "fetch"]
    /\ tx' = [tx EXCEPT ![w] = [state |-> "open", writes |-> <<>>]]
    /\ UNCHANGED <<syncMutex, store, clock, pod, fetched, feed, existing,
                   idx, counts, defers, ret, before, lastSynced>>

\* lines 63-71: GetPodcastByID and the check of RSSUrl
LoadPodcast(w) ==
    /\ pc[w] = "load"
    /\ \E ok \in BOOLEAN :
         IF ~ok
         THEN /\ pc' = [pc EXCEPT ![w] = "failed"]
              /\ ret' = [ret EXCEPT ![w] = [err |-> "failed to get podcast",
                                            result |-> None]]
              /\ podcast' = podcast
         ELSE /\ podcast' = [podcast EXCEPT ![w] = podcasts[pod[w]]]
              /\ IF podcasts[pod[w]].RSSUrl = ""
                 THEN /\ pc' = [pc EXCEPT ![w] = "failed"]
                      /\ ret' = [ret EXCEPT ![w] =
                                   [err |-> "podcast has no RSS URL",
                                    result |-> None]]
                 ELSE /\ pc' = [pc EXCEPT ![w] = "fetch"]
                      /\ ret' = ret
    /\ UNCHANGED <<syncMutex, store, clock, pod, fetched, feed, tx, existing,
                   idx, counts, defers, before, lastSynced>>

\* lines 79-85: s.parser.ParseFeed(ctx, podcast.RSSUrl)
FetchFeed(w, resp) ==
    /\ pc[w] = "fetch"
    /\   LET r == ParseFeed(resp, clock)
         IN  /\ fetched' = [fetched EXCEPT ![w] = resp]
             /\ IF r.err # ""
                THEN /\ syncLogs' = logSyncFailure(syncLogs, pod[w], 0, 0,
                                                   r.err, clock)
                     /\ pc' = [pc EXCEPT ![w] = "failed"]
                     /\ ret' = [ret EXCEPT ![w] =
                                  [err |-> "failed to parse feed",
                                   result |-> SyncResult(FALSE, 0, 0, r.err)]]
                     /\ feed' = feed
                ELSE /\ feed' = [feed EXCEPT ![w] = r.feed]
                     /\ pc' = [pc EXCEPT ![w] = "begin"]
                     /\ UNCHANGED <<syncLogs, ret>>
    /\ UNCHANGED <<syncMutex, podcasts, episodes, clock, pod, podcast, tx,
                   existing, idx, counts, defers, before, lastSynced>>

\* lines 87-94: s.db.BeginTxx and defer tx.Rollback()
BeginTx(w) ==
    /\ pc[w] = "begin"
    /\ \E ok \in BOOLEAN :
         IF ok
         THEN /\ tx' = [tx EXCEPT ![w] = [state |-> "open", writes |-> <<>>]]
              /\ defers' = [defers EXCEPT ![w] = Append(@, "rollback")]
              /\ pc' = [pc EXCEPT ![w] = "meta"]
              /\ UNCHANGED <<syncLogs, ret>>
         ELSE /\ syncLogs' = logSyncFailure(syncLogs, pod[w], 0, 0,
                                            "Failed to start transaction", clock)
              /\ pc' = [pc EXCEPT ![w] = "failed"]
              /\ ret' = [ret EXCEPT ![w] =
                           [err |-> "failed to start transaction",
                            result |-> SyncResult(FALSE, 0, 0, "Database error")]]
              /\ UNCHANGED <<tx, defers>>
    /\ UNCHANGED <<syncMutex, podcasts, episodes, clock, pod, podcast, fetched,
                   feed, existing, idx, counts, before, lastSynced>>

\* lines 96-158: merge the feed's metadata and write the podcast
UpdateMetadata(w) ==
    /\ pc[w] = "meta"
    /\ \E ok \in BOOLEAN :
         IF ok
         THEN LET wr == WritePodcast(tx[w], podcasts,
                                     MergePodcast(podcast[w], feed[w], clock))
              IN  /\ tx' = [tx EXCEPT ![w] = wr.tx]
                  /\ podcasts' = wr.podcasts
                  /\ pc' = [pc EXCEPT ![w] = "episodes"]
                  /\ UNCHANGED <<syncLogs, ret>>
         ELSE /\ syncLogs' = logSyncFailure(syncLogs, pod[w], 0, 0,
                                  "Failed to update podcast metadata", clock)
              /\ tx' = [tx EXCEPT ![w] = Abort(@)]
              /\ pc' = [pc EXCEPT ![w] = "failed"]
              /\ ret' = [ret EXCEPT ![w] =
                           [err |-> "failed to update podcast",
                            result |-> SyncResult(FALSE, 0, 0,
                                         "Failed to update podcast metadata")]]
              /\ podcasts' = podcasts
    /\ UNCHANGED <<syncMutex, episodes, clock, pod, podcast, fetched, feed,
                   existing, idx, counts, defers, before, lastSynced>>

\* lines 160-172: GetAllEpisodesByPodcastIDTx
LoadEpisodes(w) ==
    /\ pc[w] = "episodes"
    /\ \E ok \in BOOLEAN :
         IF ok
         THEN /\ existing' = [existing EXCEPT ![w] = TxView(tx[w], pod[w]).episodes]
              /\ idx' = [idx EXCEPT ![w] = 1]
              /\ pc' = [pc EXCEPT ![w] =
                          IF Len(feed[w].Items) = 0 THEN "commit" ELSE "item"]
              /\ UNCHANGED <<syncLogs, ret, tx>>
         ELSE /\ syncLogs' = logSyncFailure(syncLogs, pod[w], 0, 0,
                                  "Failed to get existing episodes", clock)
              /\ tx' = [tx EXCEPT ![w] = Abort(@)]
              /\ pc' = [pc EXCEPT ![w] = "failed"]
              /\ ret' = [ret EXCEPT ![w] =
                           [err |-> "failed to get existing episodes",
                            result |-> SyncResult(FALSE, 0, 0,
                                         "Failed to get existing episodes")]]
              /\ UNCHANGED <<existing, idx>>
    /\ UNCHANGED <<syncMutex, podcasts, episodes, clock, pod, podcast, fetched,
                   feed, counts, defers, before, lastSynced>>

\* lines 178-265: one iteration of the loop over feed.Items.  A statement
\* succeeds only in a transaction that is still open; a failed statement is
\* logged and the loop continues.
ProcessItem(w) ==
    /\ pc[w] = "item"
    /\ LET item == feed[w].Items[idx[w]]
           k    == ExistingIndex(existing[w], item.GUID)
           d    == DiffEpisode(existing[w][k], item)
       IN  IF item.GUID = "" \/ (k # 0 /\ ~d.updated)
           THEN UNCHANGED <<tx, episodes, counts>>
           ELSE \E ok \in BOOLEAN :
                  IF k # 0
                  THEN IF ok /\ tx[w].state = "open"
                       THEN LET wr == WriteEpisode(tx[w], episodes, pod[w], k,
                                                   d.episode)
                            IN  /\ tx' = [tx EXCEPT ![w] = wr.tx]
                                /\ episodes' = wr.episodes
                                /\ counts' = [counts EXCEPT ![w].updated = @ + 1]
                       ELSE /\ tx' = [tx EXCEPT ![w] = Abort(@)]
                            /\ UNCHANGED <<episodes, counts>>
                  ELSE IF /\ ok
                          /\ tx[w].state = "open"
                          /\ ~ViolatesUnique(tx[w], pod[w], NewEpisode(item))
                       THEN LET wr == WriteNewEpisode(tx[w], episodes, pod[w],
                                                      NewEpisode(item))
                            IN  /\ tx' = [tx EXCEPT ![w] = wr.tx]
                                /\ episodes' = wr.episodes
                                /\ counts' = [counts EXCEPT ![w].added = @ + 1]
                       ELSE /\ tx' = [tx EXCEPT ![w] = Abort(@)]
                            /\ UNCHANGED <<episodes, counts>>
    /\ idx' = [idx EXCEPT ![w] = @ + 1]
    /\ pc' = [pc EXCEPT ![w] =
                IF idx[w] + 1 > Len(feed[w].Items) THEN "commit" ELSE "item"]
    /\ UNCHANGED <<syncMutex, podcasts, syncLogs, clock, pod, podcast, fetched,
                   feed, existing, defers, ret, before, lastSynced>>

\* lines 267-282: tx.Commit(), the log entry and the result
Commit(w) ==
    /\ pc[w] = "commit"
    /\ \E ok \in BOOLEAN :
         IF ok /\ tx[w].state = "open"
         THEN LET db == TxView(tx[w], pod[w])
              IN  /\ podcasts' = [podcasts EXCEPT ![pod[w]] = db.podcast]
                  /\ episodes' = [episodes EXCEPT ![pod[w]] = db.episodes]
                  /\ tx' = [tx EXCEPT ![w].state = "committed"]
                  /\ syncLogs' = logSyncSuccess(syncLogs, pod[w],
                                     counts[w].added, counts[w].updated, clock)
                  /\ pc' = [pc EXCEPT ![w] = "committed"]
                  /\ ret' = [ret EXCEPT ![w] =
                               [err |-> "",
                                result |-> SyncResult(TRUE, counts[w].added,
                                                      counts[w].updated, "")]]
                  /\ lastSynced' = [lastSynced EXCEPT ![pod[w]] = fetched[w]]
         ELSE /\ tx' = [tx EXCEPT ![w] = Abort(@)]
              /\ syncLogs' = logSyncFailure(syncLogs, pod[w], counts[w].added,
                                 counts[w].updated,
                                 "Failed to commit transaction", clock)
              /\ pc' = [pc EXCEPT ![w] = "failed"]
              /\ ret' = [ret EXCEPT ![w] =
                           [err |-> "failed to commit transaction",
                            result |-> SyncResult(FALSE, 0, 0, "Database error")]]
              /\ UNCHANGED <<podcasts, episodes, lastSynced>>
    /\ UNCHANGED <<syncMutex, clock, pod, podcast, fetched, feed, existing,
                   idx, counts, defers, before>>

\* a run-time panic anywhere between line 61 and the return
Panic(w) ==
    /\ pc[w] \in Running
    /\ pc' = [pc EXCEPT ![w] = "panicked"]
    /\ ret' = [ret EXCEPT ![w] = [err |-> "panic", result |-> None]]
    /\ UNCHANGED <<syncMutex, store, clock, pod, locals, defers, before,
                   lastSynced>>

\* the return: the deferred calls run (tx.Rollback discards the writes of a
\* transaction that did not commit), the frame is gone
Return(w) ==
    /\ pc[w] \in Ended \cup {"rejected"}
    /\ syncMutex' = RunDefers(defers[w], syncMutex, GuardKey(pod[w]))
    /\ pc' = [pc EXCEPT ![w] = "idle"]
    /\ pod' = [pod EXCEPT ![w] = NoPodcast]
    /\ podcast' = [podcast EXCEPT ![w] = None]
    /\ fetched' = [fetched EXCEPT ![w] = None]
    /\ feed' = [feed EXCEPT ![w] = None]
    /\ tx' = [tx EXCEPT ![w] = NoTx]
    /\ existing' = [existing EXCEPT ![w] = <<>>]
    /\ idx' = [idx EXCEPT ![w] = 0]
    /\ counts' = [counts EXCEPT ![w] = NoCounts]
    /\ defers' = [defers EXCEPT ![w] = <<>>]
    /\ ret' = [ret EXCEPT ![w] = NoRet]
    /\ before' = [before EXCEPT ![w] = None]
    /\ UNCHANGED <<store, clock, lastSynced>>

Next ==
    \/ \E w \in Invocations, p \in Podcasts :
         SyncPodcast(w, p, MaxCalls) /\ UNCHANGED callers
    \/ \E w \in Invocations : LoadPodcast(w) /\ UNCHANGED callers
    \/ \E w \in Invocations, resp \in FewResponses :
         FetchFeed(w, resp) /\ UNCHANGED callers
    \/ \E w \in Invocations : BeginTx(w) /\ UNCHANGED callers
    \/ \E w \in Invocations : UpdateMetadata(w) /\ UNCHANGED callers
    \/ \E w \in Invocations : LoadEpisodes(w) /\ UNCHANGED callers
    \/ \E w \in Invocations : ProcessItem(w) /\ UNCHANGED callers
    \/ \E w \in Invocations : Commit(w) /\ UNCHANGED callers
    \/ \E w \in Invocations : Panic(w) /\ UNCHANGED callers
    \/ \E w \in Invocations : Return(w) /\ UNCHANGED callers

Spec == Init /\ [][Next]_vars

\* One caller at a time, every response: the reconciliation in detail.
NextSeq ==
    \/ \E p \in {"p1", "p3"} :
         SyncPodcast("w1", p, MaxSeqCalls) /\ UNCHANGED callers
    \/ LoadPodcast("w1") /\ UNCHANGED callers
    \/ \E resp \in Responses : FetchFeed("w1", resp) /\ UNCHANGED callers
    \/ BeginTx("w1") /\ UNCHANGED callers
    \/ UpdateMetadata("w1") /\ UNCHANGED callers
    \/ LoadEpisodes("w1") /\ UNCHANGED callers
    \/ ProcessItem("w1") /\ UNCHANGED callers
    \/ Commit("w1") /\ UNCHANGED callers
    \/ Panic("w1") /\ UNCHANGED callers
    \/ Return("w1") /\ UNCHANGED callers

SpecSeq == Init /\ [][NextSeq]_vars

\* One caller, one podcast, a feed that changes between the syncs.
NextRecon ==
    \/ SyncPodcast("w1", "p1", MaxReconCalls) /\ UNCHANGED callers
    \/ LoadPodcast("w1") /\ UNCHANGED callers
    \/ \E resp \in ReconResponses : FetchFeed("w1", resp) /\ UNCHANGED callers
    \/ BeginTx("w1") /\ UNCHANGED callers
    \/ UpdateMetadata("w1") /\ UNCHANGED callers
    \/ LoadEpisodes("w1") /\ UNCHANGED callers
    \/ ProcessItem("w1") /\ UNCHANGED callers
    \/ Commit("w1") /\ UNCHANGED callers
    \/ Panic("w1") /\ UNCHANGED callers
    \/ Return("w1") /\ UNCHANGED callers

SpecRecon == Init /\ [][NextRecon]_vars

\* The store holds an episode of podcast p1 from an earlier sync.
InitParse ==
    /\ syncMutex = {}
    /\ podcasts = [p \in Podcasts |->
                     PodcastRow(p, IF p = "p3" THEN "" ELSE "url")]
    /\ episodes = [p \in Podcasts |->
                     IF p = "p1"
                     THEN <<NewEpisode(ParseItem(RawItem("g1", "a", D1),
                                                 "img", 0))>>
                     ELSE <<>>]
    /\ syncLogs = [p \in Podcasts |-> <<>>]
    /\ clock = 1
    /\ pc = [w \in Invocations |-> "idle"]
    /\ pod = [w \in Invocations |-> NoPodcast]
    /\ podcast = [w \in Invocations |-> None]
    /\ fetched = [w \in Invocations |-> None]
    /\ feed = [w \in Invocations |-> None]
    /\ tx = [w \in Invocations |-> NoTx]
    /\ existing = [w \in Invocations |-> <<>>]
    /\ idx = [w \in Invocations |-> 0]
    /\ counts = [w \in Invocations |-> NoCounts]
    /\ defers = [w \in Invocations |-> <<>>]
    /\ ret = [w \in Invocations |-> NoRet]
    /\ before = [w \in Invocations |-> None]
    /\ lastSynced = [p \in Podcasts |-> None]
    /\ syncAll = NoSyncAll
    /\ ctx = [w \in Invocations |-> "live"]
    /\ owner = NoOwner
    /\ periodic = Asleep

\* One caller, one podcast, feeds with items of every kind.
NextParse ==
    \/ SyncPodcast("w1", "p1", MaxParseCalls) /\ UNCHANGED callers
    \/ LoadPodcast("w1") /\ UNCHANGED callers
    \/ \E resp \in ParseResponses : FetchFeed("w1", resp) /\ UNCHANGED callers
    \/ BeginTx("w1") /\ UNCHANGED callers
    \/ UpdateMetadata("w1") /\ UNCHANGED callers
    \/ LoadEpisodes("w1") /\ UNCHANGED callers
    \/ ProcessItem("w1") /\ UNCHANGED callers
    \/ Commit("w1") /\ UNCHANGED callers
    \/ Panic("w1") /\ UNCHANGED callers
    \/ Return("w1") /\ UNCHANGED callers

SpecParse == InitParse /\ [][NextParse]_vars

\* One sync up to the parsed feed, for every duration text.
NextDuration ==
    \/ SyncPodcast("w1", "p1", MaxParseCalls) /\ UNCHANGED callers
    \/ LoadPodcast("w1") /\ UNCHANGED callers
    \/ \E resp \in DurationResponses :
         FetchFeed("w1", resp) /\ UNCHANGED callers

SpecDuration == Init /\ [][NextDuration]_vars

\* ------------------------------------------------- the caller's context
\* the answers met by a caller that may cancel: a feed, not found, and a
\* request that ended with a transport error
CancelResponses ==
    FewResponses
    \cup {[Response(200, RawChannel("T1", <<>>)) EXCEPT !.doErr = TRUE]}

\* a caller calls SyncPodcast with a context of its own
CallWithContext(w, p, limit) ==
    /\ SyncPodcast(w, p, limit)
    /\ ctx' = [ctx EXCEPT ![w] = "live"]
    /\ UNCHANGED <<syncAll, owner, periodic>>

\* a context without deadline that nobody cancels
CancelNever(w) == FALSE /\ UNCHANGED vars

\* the context of a running invocation is cancelled or its timeout expires
Cancel(w) ==
    /\ pc[w] \in Running
    /\ ctx[w] = "live"
    /\ ctx' = [ctx EXCEPT ![w] = "done"]
    /\ UNCHANGED <<syncMutex, store, clock, pc, pod, locals, defers, ret,
                   before, lastSynced, syncAll, owner, periodic>>

\* One caller of one podcast whose context may end at any point of the
\* sync.  A call that is given a context that is done fails: the query of
\* line 64, the request of parser.go:128, BeginTxx, every statement of the
\* transaction, and Commit of a transaction begun with that context.
NextCancel ==
    \/ CallWithContext("w1", "p1", MaxReconCalls)
    \/ Cancel("w1")
    \/ /\ LoadPodcast("w1")
       /\ ctx["w1"] = "done" => pc'["w1"] = "failed"
       /\ UNCHANGED callers
    \/ \E resp \in CancelResponses :
         /\ FetchFeed("w1", resp)
         /\ ctx["w1"] = "done" => resp.doErr
         /\ UNCHANGED callers
    \/ /\ BeginTx("w1")
       /\ ctx["w1"] = "done" => pc'["w1"] = "failed"
       /\ UNCHANGED callers
    \/ /\ UpdateMetadata("w1")
       /\ ctx["w1"] = "done" => pc'["w1"] = "failed"
       /\ UNCHANGED callers
    \/ /\ LoadEpisodes("w1")
       /\ ctx["w1"] = "done" => pc'["w1"] = "failed"
       /\ UNCHANGED callers
    \/ /\ ProcessItem("w1")
       /\ ctx["w1"] = "done" => tx'["w1"].writes = tx["w1"].writes
       /\ UNCHANGED callers
    \/ /\ Commit("w1")
       /\ ctx["w1"] = "done" => pc'["w1"] = "failed"
       /\ UNCHANGED callers
    \/ Return("w1") /\ UNCHANGED callers

SpecCancel == Init /\ [][NextCancel]_vars

\* ------------------------------------------- Service.SyncAllPodcasts
\* every podcast with a feed URL, whatever its status
EligibleAnyStatus(row) == row.RSSUrl # ""

\* the podcasts SyncAllPodcasts works on: active, with a feed URL
Eligible(row) == row.Status = "active" /\ row.RSSUrl # ""

\* the orders in which the store may list a set of podcasts
Orders(S) ==
    {s \in [1..Cardinality(S) -> S] :
        \A i, j \in 1..Cardinality(S) : s[i] = s[j] => i = j}

\* the result kept for one podcast: the one SyncPodcast returned, or a
\* failure carrying its error when it returned none
BatchResult(p, r) ==
    IF r.result = None
    THEN [PodcastID |-> p, Success |-> FALSE, EpisodesAdded |-> 0,
          EpisodesUpdated |-> 0, ErrorMessage |-> r.err]
    ELSE [PodcastID |-> p, Success |-> r.result.Success,
          EpisodesAdded |-> r.result.EpisodesAdded,
          EpisodesUpdated |-> r.result.EpisodesUpdated,
          ErrorMessage |-> r.result.ErrorMessage]

\* the loop left at the first podcast whose sync returns an error
CollectStopOnError(b, r) ==
    [b EXCEPT !.results = Append(@, r),
              !.i = @ + 1,
              !.state = IF ~r.Success \/ b.i + 1 > Len(b.podcasts)
                        THEN "done" ELSE "running"]

\* the loop body after SyncPodcast returned: keep the result, go on
Collect(b, r) ==
    [b EXCEPT !.results = Append(@, r),
              !.i = @ + 1,
              !.state = IF b.i + 1 > Len(b.podcasts)
                        THEN "done" ELSE "running"]

\* the call of SyncAllPodcasts (main.go:70, 166, 176): list the podcasts
SyncAllPodcasts ==
    /\ syncAll.state = "idle"
    /\ \E ok \in BOOLEAN :
         IF ok
         THEN \E order \in Orders({p \in Podcasts : Eligible(podcasts[p])}) :
                syncAll' = [NoSyncAll EXCEPT
                              !.state = IF Len(order) = 0 THEN "done"
                                        ELSE "running",
                              !.podcasts = order,
                              !.i = 1]
         ELSE syncAll' = [NoSyncAll EXCEPT !.state = "done",
                                           !.err = "failed to get podcasts"]
    /\ UNCHANGED <<syncMutex, store, clock, pc, pod, locals, defers, ret,
                   before, lastSynced>>

\* the loop calls SyncPodcast for the next podcast of the list; the calls
\* of the loop are not counted against the manual ones
SyncAllNext ==
    /\ syncAll.state = "running"
    /\ SyncPodcast("w1", syncAll.podcasts[syncAll.i],
                   MaxManualCalls + Cardinality(Podcasts))
    /\ syncAll' = [syncAll EXCEPT
                     !.calls = Append(@, syncAll.podcasts[syncAll.i])]

\* SyncPodcast returns to the loop
SyncAllCollect ==
    /\ syncAll.state = "running"
    /\ pc["w1"] \in {"committed", "failed", "rejected"}
    /\ syncAll' = Collect(syncAll, BatchResult(pod["w1"], ret["w1"]))
    /\ Return("w1")

\* the store holds active and inactive podcasts, with and without feed URL
InitAll ==
    /\ syncMutex = {}
    /\ \E s2 \in {"active", "inactive"} :
         podcasts = [p \in Podcasts |->
                       [PodcastRow(p, IF p = "p3" THEN "" ELSE "url")
                          EXCEPT !.Status = IF p = "p2" THEN s2 ELSE @]]
    /\ episodes = [p \in Podcasts |-> <<>>]
    /\ syncLogs = [p \in Podcasts |-> <<>>]
    /\ clock = 1
    /\ pc = [w \in Invocations |-> "idle"]
    /\ pod = [w \in Invocations |-> NoPodcast]
    /\ podcast = [w \in Invocations |-> None]
    /\ fetched = [w \in Invocations |-> None]
    /\ feed = [w \in Invocations |-> None]
    /\ tx = [w \in Invocations |-> NoTx]
    /\ existing = [w \in Invocations |-> <<>>]
    /\ idx = [w \in Invocations |-> 0]
    /\ counts = [w \in Invocations |-> NoCounts]
    /\ defers = [w \in Invocations |-> <<>>]
    /\ ret = [w \in Invocations |-> NoRet]
    /\ before = [w \in Invocations |-> None]
    /\ lastSynced = [p \in Podcasts |-> None]
    /\ syncAll = NoSyncAll
    /\ ctx = [w \in Invocations |-> "live"]
    /\ owner = NoOwner
    /\ periodic = Asleep

\* The periodic task syncs all podcasts (invocation w1 is the call made by
\* its loop) while the manual endpoint starts syncs of its own (w2).
NextAll ==
    \/ SyncAllPodcasts /\ UNCHANGED <<ctx, owner, periodic>>
    \/ SyncAllNext /\ UNCHANGED <<ctx, owner, periodic>>
    \/ SyncAllCollect /\ UNCHANGED <<ctx, owner, periodic>>
    \/ SyncPodcast("w2", "p1", MaxManualCalls) /\ UNCHANGED callers
    \/ \E w \in Invocations : LoadPodcast(w) /\ UNCHANGED callers
    \/ \E w \in Invocations, resp \in FewResponses :
         FetchFeed(w, resp) /\ UNCHANGED callers
    \/ \E w \in Invocations : BeginTx(w) /\ UNCHANGED callers
    \/ \E w \in Invocations : UpdateMetadata(w) /\ UNCHANGED callers
    \/ \E w \in Invocations : LoadEpisodes(w) /\ UNCHANGED callers
    \/ \E w \in Invocations : ProcessItem(w) /\ UNCHANGED callers
    \/ \E w \in Invocations : Commit(w) /\ UNCHANGED callers
    \/ Return("w2") /\ UNCHANGED callers

SpecAll == InitAll /\ [][NextAll]_vars

\* ===================================================================
\* Properties
\* ===================================================================
\* past the guard acquisition and not yet returned
InFlight(w) == pc[w] \in Running \cup Ended

\* C1: for every podcast at most one SyncPodcast invocation is past the
\* guard acquisition and not yet returned.
MutualExclusion ==
    \A p \in Podcasts :
        Cardinality({w \in Invocations : InFlight(w) /\ pod[w] = p}) <= 1

MutualExclusionWitness ==
    \E w, v \in Invocations :
        /\ w # v
        /\ pod[w] = pod[v]
        /\ pc[w] \in Running
        /\ pc[v] = "rejected"

\* C2: a request for a podcast whose sync is in flight is rejected in the
\* same step with the sync-in-progress error; it loads nothing, fetches
\* nothing, opens no transaction, writes no podcast or episode row, leaves
\* the guard as it is, and its only further step is its return.
RejectedNotQueued ==
    [][\A w \in Invocations :
         /\ (/\ pc[w] = "idle"
             /\ pc'[w] # "idle"
             /\ \E v \in Invocations \ {w} : InFlight(v) /\ pod[v] = pod'[w])
            => /\ pc'[w] = "rejected"
               /\ ret'[w].err = "sync already in progress"
               /\ UNCHANGED <<syncMutex, podcasts, episodes>>
         /\ pc[w] = "rejected"
            => /\ podcast[w] = None /\ fetched[w] = None /\ tx[w] = NoTx
               /\ pc'[w] \in {"rejected", "idle"}
               /\ pc'[w] = "idle"
                  => UNCHANGED <<syncMutex, podcasts, episodes>>]_vars

RejectedNotQueuedWitness ==
    \E w, v \in Invocations :
        /\ pc[w] = "rejected"
        /\ pod[v] = pod[w]
        /\ pc[v] = "commit"
        /\ GuardKey(pod[v]) \in syncMutex

\* C3: while a sync of podcast A is in flight and none of podcast B is, a
\* request for B is not rejected: it enters Running.
DifferentPodcastsProceed ==
    [][\A w \in Invocations :
         (/\ pc[w] = "idle"
          /\ pc'[w] # "idle"
          /\ \E v \in Invocations \ {w} : InFlight(v) /\ pod[v] # pod'[w]
          /\ ~\E v \in Invocations \ {w} : InFlight(v) /\ pod[v] = pod'[w])
         => pc'[w] = "load"]_vars

DifferentPodcastsWitness ==
    \E w, v \in Invocations :
        /\ pc[w] \in Running
        /\ pc[v] \in Running
        /\ pod[w] # pod[v]

\* C4: when an invocation that acquired the guard returns, whatever its
\* exit path, the guard of its podcast is free; a guard is held only for a
\* podcast that has an invocation in flight, and a request for a podcast
\* with no invocation in flight is not rejected.
GuardReleasedOnExit ==
    [][/\ \A w \in Invocations :
            (pc[w] \in Ended /\ pc'[w] = "idle")
            => GuardKey(pod[w]) \notin syncMutex'
       /\ \A w \in Invocations :
            (/\ pc[w] = "idle"
             /\ pc'[w] # "idle"
             /\ ~\E v \in Invocations \ {w} : InFlight(v) /\ pod[v] = pod'[w])
            => pc'[w] = "load"
       /\ \A p \in Podcasts :
            GuardKey(p) \in syncMutex'
            => \E w \in Invocations : InFlight(w)' /\ pod'[w] = p]_vars

\* a later sync of a podcast is admitted after an attempt whose commit failed
GuardReleasedWitness ==
    \E w \in Invocations :
        /\ pc[w] \in Running
        /\ before[w].nlogs >= 1
        /\ syncLogs[pod[w]][before[w].nlogs].error_message
             = "Failed to commit transaction"

\* the rows of the podcast of w when w acquired the guard
RowsBefore(w) == [podcast |-> before[w].podcast, episodes |-> before[w].episodes]

\* the log entries written for the podcast of w since w acquired the guard
LoggedSince(w) ==
    SubSeq(syncLogs[pod[w]], before[w].nlogs + 1, Len(syncLogs[pod[w]]))

\* C5: the committed rows of an attempt's podcast are the rows from before
\* the attempt until it commits, and from then on those rows with every
\* write of the attempt applied: never a part of them.
WriteAtomicity ==
    \A w \in Invocations :
        InFlight(w) =>
            IF pc[w] = "committed"
            THEN Rows(pod[w]) = ApplyWrites(RowsBefore(w), tx[w].writes)
            ELSE Rows(pod[w]) = RowsBefore(w)

\* a commit that carried the metadata update and an episode insert
WriteAtomicityWitness ==
    \E w \in Invocations :
        /\ pc[w] = "committed"
        /\ Len(tx[w].writes) >= 2
        /\ tx[w].writes[1].op = "podcast"
        /\ tx[w].writes[2].op = "insert"
        /\ Rows(pod[w]) # RowsBefore(w)

\* C6: every attempt that acquired the guard and ended Committed or Failed
\* has written exactly one sync log entry.
OneLogPerAttempt ==
    \A w \in Invocations :
        pc[w] \in {"committed", "failed"} => Len(LoggedSince(w)) = 1

\* C7: the step that rejects a request, and the return of the rejected
\* request, leave the sync log of every podcast unchanged.
RejectionNotLogged ==
    [][\A w \in Invocations :
         (\/ pc[w] = "idle" /\ pc'[w] = "rejected"
          \/ pc[w] = "rejected" /\ pc'[w] = "idle") => syncLogs' = syncLogs]_vars

RejectionNotLoggedWitness ==
    \E w, v \in Invocations :
        /\ pc[w] = "rejected"
        /\ InFlight(v)
        /\ pod[v] = pod[w]
        /\ Len(syncLogs[pod[w]]) = before[v].nlogs

\* a response that is a fetch or parse failure: transport error or timeout,
\* status other than 200, unreadable body, undecodable XML, no channel title
FetchOrParseFailure(resp) ==
    \/ resp.doErr
    \/ resp.status # 200
    \/ resp.readErr
    \/ ~resp.xmlOk
    \/ resp.channel.Title = ""

\* C8: after a fetch or parse failure the attempt is Failed, no transaction
\* was opened, the rows of the podcast are those from before the attempt,
\* one log entry with status failure and the error message was written,
\* and the caller gets an error.
FetchFailureFails ==
    \A w \in Invocations :
        (fetched[w] # None /\ FetchOrParseFailure(fetched[w]))
        => /\ pc[w] = "failed"
           /\ tx[w] = NoTx
           /\ defers[w] = <<"unlock">>
           /\ Rows(pod[w]) = RowsBefore(w)
           /\ Len(LoggedSince(w)) = 1
           /\ LoggedSince(w)[1].status = "failure"
           /\ LoggedSince(w)[1].error_message # ""
           /\ LoggedSince(w)[1].error_message = ret[w].result.ErrorMessage
           /\ fetched[w].status # 200 /\ ~fetched[w].doErr
              => LoggedSince(w)[1].error_message
                   = "feed request failed with status"
           /\ ret[w].err = "failed to parse feed"

\* a 404 answered to the sync of a podcast that already has episodes
FetchFailureWitness ==
    \E w \in Invocations :
        /\ pc[w] = "failed"
        /\ fetched[w] # None
        /\ fetched[w].status = 404
        /\ Len(episodes[pod[w]]) >= 1

\* C9: an attempt that failed with its transaction open (metadata write,
\* episode load or commit failed) leaves the rows of its podcast as they
\* were before it, last_synced_at included, and is logged as a failure.
WriteFailureRollsBack ==
    \A w \in Invocations :
        (pc[w] = "failed" /\ tx[w].state # "none")
        => /\ Rows(pod[w]) = RowsBefore(w)
           /\ Len(LoggedSince(w)) >= 1
           /\ LoggedSince(w)[Len(LoggedSince(w))].status = "failure"
           /\ ret[w].err \in {"failed to update podcast",
                              "failed to get existing episodes",
                              "failed to commit transaction"}

\* a failed commit of a transaction holding a metadata and an episode write
WriteFailureWitness ==
    \E w \in Invocations :
        /\ pc[w] = "failed"
        /\ ret[w].err = "failed to commit transaction"
        /\ Len(tx[w].writes) >= 2
        /\ tx[w].writes[1].row.LastSyncedAt # before[w].podcast.LastSyncedAt

\* C10: a sync that commits after fetching the response that the latest
\* committed sync of the podcast fetched reports no episode added and none
\* updated and leaves the podcast row unchanged except last_synced_at.
Idempotence ==
    \A w \in Invocations :
        (pc[w] = "committed" /\ before[w].lastSynced = fetched[w])
        => /\ ret[w].result.EpisodesAdded = 0
           /\ ret[w].result.EpisodesUpdated = 0
           /\ [podcasts[pod[w]] EXCEPT !.LastSyncedAt = 0]
                = [before[w].podcast EXCEPT !.LastSyncedAt = 0]

\* the GUIDs of a sequence of episode rows or feed items
GUIDs(rows) == {rows[i].GUID : i \in 1..Len(rows)}

\* C11: no two stored episodes of one podcast have the same GUID, whatever
\* feeds were synced (feeds repeating a GUID and repeated syncs included).
GuidUniqueness ==
    \A p \in Podcasts :
        \A i, j \in 1..Len(episodes[p]) :
            episodes[p][i].GUID = episodes[p][j].GUID => i = j

\* the feed that repeats g1 was synced and committed over a stored g1
GuidUniquenessWitness ==
    \E w \in Invocations :
        /\ pc[w] = "committed"
        /\ Len(feed[w].Items) = 2
        /\ feed[w].Items[1].GUID = feed[w].Items[2].GUID
        /\ counts[w].updated >= 1
        /\ Len(episodes[pod[w]]) = 1

\* C12: a step of a sync keeps every stored episode at its place with its
\* GUID and status, changes no field of an episode whose GUID is not in
\* the feed of the committing sync, and removes no GUID from the store.
StrictlyAdditive ==
    [][\A p \in Podcasts :
         /\ Len(episodes'[p]) >= Len(episodes[p])
         /\ GUIDs(episodes[p]) \subseteq GUIDs(episodes'[p])
         /\ \A i \in 1..Len(episodes[p]) :
              /\ episodes'[p][i].GUID = episodes[p][i].GUID
              /\ episodes'[p][i].Status = episodes[p][i].Status
              /\ (\A w \in Invocations :
                     (pod[w] = p /\ pc[w] = "commit")
                     => episodes[p][i].GUID \notin GUIDs(feed[w].Items))
                 => episodes'[p][i] = episodes[p][i]]_vars

\* a sync committed whose feed lacks the GUID of a stored episode
StrictlyAdditiveWitness ==
    \E w \in Invocations :
        /\ pc[w] = "committed"
        /\ Len(before[w].episodes) >= 1
        /\ before[w].episodes[1].GUID \notin GUIDs(feed[w].Items)
        /\ Len(episodes[pod[w]]) > Len(before[w].episodes)
        /\ episodes[pod[w]][1] = before[w].episodes[1]

\* the "non-empty and different" rule over the eight episode fields
FieldDiffers(e, item) ==
    \/ item.Title # "" /\ item.Title # e.Title
    \/ item.Description # "" /\ item.Description # e.Description
    \/ item.AudioURL # "" /\ item.AudioURL # e.AudioURL
    \/ item.Duration > 0 /\ item.Duration # e.Duration
    \/ item.CoverImageURL # "" /\ item.CoverImageURL # e.CoverImageURL
    \/ item.PublicationDate # 0 /\ item.PublicationDate # e.PublicationDate
    \/ ~item.EpisodeNumber.isNil /\ item.EpisodeNumber # e.EpisodeNumber
    \/ ~item.SeasonNumber.isNil /\ item.SeasonNumber # e.SeasonNumber

\* the feed items whose GUID was not stored before the sync of w
UnseenItems(w) ==
    {i \in 1..Len(feed[w].Items) :
        feed[w].Items[i].GUID \notin GUIDs(before[w].episodes)}

\* the feed items whose GUID was stored and that differ from that episode
ChangedItems(w) ==
    {i \in 1..Len(feed[w].Items) :
        \E j \in 1..Len(before[w].episodes) :
            /\ before[w].episodes[j].GUID = feed[w].Items[i].GUID
            /\ FieldDiffers(before[w].episodes[j], feed[w].Items[i])}

\* C13: a committed sync reports, in its result and in its one success log
\* entry, as added the number of feed items whose GUID was not stored before
\* and as updated the number of feed items whose GUID was stored and that
\* differ from the stored episode in some field; an item that matches and
\* does not differ is counted in neither.
CountsMatchFeed ==
    \A w \in Invocations :
        pc[w] = "committed"
        => /\ ret[w].result.Success
           /\ ret[w].result.EpisodesAdded = Cardinality(UnseenItems(w))
           /\ ret[w].result.EpisodesUpdated = Cardinality(ChangedItems(w))
           /\ LoggedSince(w) = <<SyncLogEntry("success",
                                    Cardinality(UnseenItems(w)),
                                    Cardinality(ChangedItems(w)), "", clock)>>

\* three items: g1 stored and retitled, g2 stored and the same, g3 new
CountsMatchFeedWitness ==
    \E w \in Invocations :
        /\ pc[w] = "committed"
        /\ Len(feed[w].Items) = 3
        /\ GUIDs(before[w].episodes) = {"g1", "g2"}
        /\ feed[w].Items[1].Title # before[w].episodes[1].Title
        /\ ~FieldDiffers(before[w].episodes[2], feed[w].Items[2])
        /\ ret[w].result.EpisodesAdded = 1
        /\ ret[w].result.EpisodesUpdated = 1
        /\ syncLogs[pod[w]][Len(syncLogs[pod[w]])].status = "success"

\* the feed-derived text fields of a podcast
MetadataTextFields ==
    {"Title", "Description", "Language", "Author", "CoverImageURL",
     "WebsiteURL", "Category", "Subcategory"}

\* C14: after a committed sync every feed-derived field of the podcast is
\* the feed's value if that value is non-empty (for the explicit flag:
\* true) and differs from the stored one, and the stored value otherwise;
\* an empty feed text erases nothing and a feed flag of false leaves a
\* stored true.
MetadataMergeRule ==
    \A w \in Invocations :
        pc[w] = "committed"
        => /\ \A k \in MetadataTextFields :
                podcasts[pod[w]][k] =
                    IF feed[w][k] # "" /\ feed[w][k] # before[w].podcast[k]
                    THEN feed[w][k] ELSE before[w].podcast[k]
           /\ podcasts[pod[w]].Explicit =
                    IF feed[w].Explicit /\ ~before[w].podcast.Explicit
                    THEN TRUE ELSE before[w].podcast.Explicit

\* C15: a committed sync leaves the podcast's last_synced_at at the time
\* of that sync, later than the one before, whether or not anything else
\* changed; a failed sync leaves last_synced_at as it was.
LastSyncedAtStamped ==
    \A w \in Invocations :
        /\ pc[w] = "committed"
           => /\ podcasts[pod[w]].LastSyncedAt = clock
              /\ podcasts[pod[w]].LastSyncedAt > before[w].podcast.LastSyncedAt
        /\ pc[w] = "failed"
           => podcasts[pod[w]].LastSyncedAt = before[w].podcast.LastSyncedAt

\* a committed sync of an already synced podcast that changed nothing else
LastSyncedAtWitness ==
    \E w \in Invocations :
        /\ pc[w] = "committed"
        /\ before[w].podcast.LastSyncedAt # 0
        /\ counts[w] = NoCounts
        /\ episodes[pod[w]] = before[w].episodes
        /\ [podcasts[pod[w]] EXCEPT !.LastSyncedAt = 0]
             = [before[w].podcast EXCEPT !.LastSyncedAt = 0]
        /\ podcasts[pod[w]].LastSyncedAt # before[w].podcast.LastSyncedAt

\* C16: no step of a sync, committing or failing, changes the id,
\* podcaster_id, rss_url or status of a podcast.
IdentityUnchanged ==
    [][\A p \in Podcasts :
         /\ podcasts'[p].ID = podcasts[p].ID
         /\ podcasts'[p].PodcasterID = podcasts[p].PodcasterID
         /\ podcasts'[p].RSSUrl = podcasts[p].RSSUrl
         /\ podcasts'[p].Status = podcasts[p].Status]_vars

\* a committed sync that rewrote title, author, category and website URL
IdentityUnchangedWitness ==
    \E w \in Invocations :
        /\ pc[w] = "committed"
        /\ podcasts[pod[w]].Title # before[w].podcast.Title
        /\ podcasts[pod[w]].Author # before[w].podcast.Author
        /\ podcasts[pod[w]].Subcategory # before[w].podcast.Subcategory
        /\ podcasts[pod[w]].WebsiteURL # before[w].podcast.WebsiteURL
        /\ podcasts[pod[w]].RSSUrl = "url"
        /\ podcasts[pod[w]].Status = "active"

\* the podcasts that are active and have a feed URL
EligiblePodcasts ==
    {p \in Podcasts : podcasts[p].Status = "active" /\ podcasts[p].RSSUrl # ""}

\* C17: SyncAllPodcasts calls SyncPodcast for eligible podcasts only and
\* for none twice; when it returns without error it has called it for
\* every eligible podcast and holds one result per call, of that podcast.
SyncAllCoversEligible ==
    /\ \A k \in 1..Len(syncAll.calls) : syncAll.calls[k] \in EligiblePodcasts
    /\ \A k, l \in 1..Len(syncAll.calls) :
          syncAll.calls[k] = syncAll.calls[l] => k = l
    /\ Len(syncAll.results) <= Len(syncAll.calls)
    /\ \A k \in 1..Len(syncAll.results) :
          syncAll.results[k].PodcastID = syncAll.calls[k]
    /\ (syncAll.state = "done" /\ syncAll.err = "")
       => /\ {syncAll.calls[k] : k \in 1..Len(syncAll.calls)} = EligiblePodcasts
          /\ Len(syncAll.results) = Cardinality(EligiblePodcasts)

\* a finished run over a store with an inactive podcast and one without
\* feed URL
SyncAllCoversEligibleWitness ==
    /\ syncAll.state = "done"
    /\ Len(syncAll.results) = 1
    /\ podcasts["p2"].Status = "inactive"
    /\ podcasts["p3"].RSSUrl = ""
    /\ Len(syncLogs["p1"]) >= 1
    /\ syncLogs["p2"] = <<>> /\ syncLogs["p3"] = <<>>

\* C18: when the sync of one podcast of the list returns a failure (fetch,
\* parse, write or sync-in-progress rejection), SyncAllPodcasts keeps a
\* failure result for it, does not return an error of its own, leaves the
\* rows of every podcast as they are (those of the failed podcast as
\* before its sync) and goes on with the next podcast of the list; every
\* result says success exactly when that podcast's sync committed.
SyncAllIsolatesFailures ==
    [][(syncAll.state = "running" /\ pc["w1"] # "idle" /\ pc'["w1"] = "idle")
       => /\ syncAll'.results
               = Append(syncAll.results, BatchResult(pod["w1"], ret["w1"]))
          /\ syncAll'.results[Len(syncAll'.results)].PodcastID = pod["w1"]
          /\ syncAll'.results[Len(syncAll'.results)].Success
               = (pc["w1"] = "committed")
          /\ syncAll'.err = ""
          /\ syncAll'.i = syncAll.i + 1
          /\ syncAll'.state
               = IF syncAll.i < Len(syncAll.podcasts) THEN "running" ELSE "done"
          /\ UNCHANGED <<podcasts, episodes>>
          /\ pc["w1"] = "failed" => Rows(pod["w1"]) = RowsBefore("w1")]_vars

\* a run in which the first podcast failed, or was rejected, and a later
\* one was synced and committed
SyncAllIsolatesFailuresWitness ==
    /\ syncAll.state = "done"
    /\ Len(syncAll.results) = 2
    /\ ~syncAll.results[1].Success
    /\ syncAll.results[1].ErrorMessage
         \in {"sync already in progress", "feed request failed with status",
              "Database error"}
    /\ syncAll.results[2].Success
    /\ Len(episodes[syncAll.results[2].PodcastID]) = 1
    /\ \/ episodes[syncAll.results[1].PodcastID] = <<>>
       \/ syncAll.results[1].ErrorMessage = "sync already in progress"

\* a raw item that has both required fields
HasRequired(item) == item.EnclosureURL # "" /\ item.Guid # ""

\* C19: the items of a normalized feed all have a GUID and an audio URL
\* and are as many as the raw items that have both; no write of a sync and
\* no stored episode has an empty GUID or an empty audio URL.
RequiredFieldFiltering ==
    /\ \A w \in Invocations :
          /\ feed[w] # None
             => /\ \A i \in 1..Len(feed[w].Items) :
                     /\ feed[w].Items[i].GUID # ""
                     /\ feed[w].Items[i].AudioURL # ""
                /\ Len(feed[w].Items)
                     = Len(SelectSeq(fetched[w].channel.Items, HasRequired))
          /\ \A k \in 1..Len(tx[w].writes) :
                tx[w].writes[k].op \in {"insert", "update"}
                => /\ tx[w].writes[k].row.GUID # ""
                   /\ tx[w].writes[k].row.AudioURL # ""
                   /\ \E j \in 1..Len(fetched[w].channel.Items) :
                        /\ HasRequired(fetched[w].channel.Items[j])
                        /\ fetched[w].channel.Items[j].Guid
                             = tx[w].writes[k].row.GUID
    /\ \A p \in Podcasts :
          \A i \in 1..Len(episodes[p]) :
              episodes[p][i].GUID # "" /\ episodes[p][i].AudioURL # ""

\* a committed sync of a feed with an item without guid or enclosure and
\* an item that updated the stored episode
RequiredFieldFilteringWitness ==
    \E w \in Invocations :
        /\ pc[w] = "committed"
        /\ Len(fetched[w].channel.Items) = 2
        /\ ~HasRequired(fetched[w].channel.Items[1])
        /\ Len(feed[w].Items) = 1
        /\ counts[w].updated = 1
        /\ Len(episodes[pod[w]]) = 1

\* a publication date written in one of the layouts the parser knows
DateParseable(pubDate) ==
    pubDate.layout \in {PubDateFormats[i] : i \in 1..Len(PubDateFormats)}

\* a duration in one of the three forms: seconds, HH:MM:SS, MM:SS
DurationParseable(duration) ==
    \/ Atoi(duration).ok
    \/ /\ Len(SplitColon(duration)) \in {2, 3}
       /\ \A i \in 1..Len(SplitColon(duration)) :
            Atoi(SplitColon(duration)[i]).ok

\* C20: whatever the items of a well-formed feed look like, the parse
\* succeeds and its item list is the raw items that have an enclosure URL
\* and a GUID, in feed order; a date in no known layout becomes the current
\* time, a duration in none of the three forms becomes 0, an episode or
\* season number that is absent or no integer stays unset.
ParseAnomaliesDegrade ==
    \A w \in Invocations :
        (fetched[w] # None /\ ~FetchOrParseFailure(fetched[w]))
        => /\ feed[w] # None
           /\ LET raw == SelectSeq(fetched[w].channel.Items, HasRequired)
              IN  /\ Len(feed[w].Items) = Len(raw)
                  /\ \A i \in 1..Len(raw) :
                       /\ feed[w].Items[i].GUID = raw[i].Guid
                       /\ feed[w].Items[i].AudioURL = raw[i].EnclosureURL
                       /\ feed[w].Items[i].Title = raw[i].Title
                       /\ ~DateParseable(raw[i].PubDate)
                          => feed[w].Items[i].PublicationDate = clock
                       /\ ~DurationParseable(raw[i].Duration)
                          => feed[w].Items[i].Duration = 0
                       /\ ~Atoi(raw[i].ItunesEpisode).ok
                          => feed[w].Items[i].EpisodeNumber = NilInt
                       /\ ~Atoi(raw[i].ItunesSeason).ok
                          => feed[w].Items[i].SeasonNumber = NilInt

\* the seconds the three accepted forms denote, 0 for every other text
DurationOf(duration) ==
    LET parts == SplitColon(duration)
        ints  == \A i \in 1..Len(parts) : Atoi(parts[i]).ok
    IN  IF Atoi(duration).ok THEN Atoi(duration).val
        ELSE IF Len(parts) = 3 /\ ints
        THEN 3600 * Atoi(parts[1]).val + 60 * Atoi(parts[2]).val
             + Atoi(parts[3]).val
        ELSE IF Len(parts) = 2 /\ ints
        THEN 60 * Atoi(parts[1]).val + Atoi(parts[2]).val
        ELSE 0

\* C21: the duration of a parsed item is N for the integer text N,
\* 3600*HH + 60*MM + SS for HH:MM:SS of integers, 60*MM + SS for MM:SS of
\* integers, and 0 for every other text.
DurationParsing ==
    \A w \in Invocations :
        feed[w] # None
        => \A i \in 1..Len(feed[w].Items) :
               feed[w].Items[i].Duration
                 = DurationOf(fetched[w].channel.Items[i].Duration)

\* C22: an attempt whose context ended before its commit ends Failed, with
\* the rows of its podcast as they were before it and with a failure entry
\* in the sync log as the record of the attempt.
CancellationFails ==
    \A w \in Invocations :
        (ctx[w] = "done" /\ pc[w] \in {"committed", "failed"})
        => /\ pc[w] = "failed"
           /\ Rows(pod[w]) = RowsBefore(w)
           /\ Len(LoggedSince(w)) = 1
           /\ LoggedSince(w)[1].status = "failure"

\* the order of the steps of SyncPodcast
StepOrder ==
    {<<"idle", "load">>, <<"idle", "rejected">>,
     <<"load", "fetch">>, <<"load", "failed">>,
     <<"fetch", "begin">>, <<"fetch", "failed">>,
     <<"begin", "meta">>, <<"begin", "failed">>,
     <<"meta", "episodes">>, <<"meta", "failed">>,
     <<"episodes", "item">>, <<"episodes", "commit">>, <<"episodes", "failed">>,
     <<"item", "commit">>,
     <<"commit", "committed">>, <<"commit", "failed">>,
     <<"committed", "idle">>, <<"failed", "idle">>, <<"panicked", "idle">>,
     <<"rejected", "idle">>}
    \cup {<<r, "panicked">> : r \in Running}

\* C23: an invocation moves from the guard to the load, the fetch and
\* parse, the opening of the transaction, the writes and the commit in
\* that order; it holds the guard all along; it has no transaction while it
\* loads and fetches, and opens one only with a parsed feed; it reads the
\* existing episodes from the open transaction that takes its writes.
StepOrdering ==
    [][\A w \in Invocations :
         /\ pc'[w] # pc[w] => <<pc[w], pc'[w]>> \in StepOrder
         /\ pc'[w] \in Running => GuardKey(pod'[w]) \in syncMutex'
         /\ pc'[w] \in {"load", "fetch", "begin"} => tx'[w] = NoTx
         /\ tx'[w] # NoTx
            => /\ podcast'[w] # None
               /\ feed'[w] # None
               /\ ~FetchOrParseFailure(fetched'[w])
         /\ (pc[w] = "episodes" /\ pc'[w] \in {"item", "commit"})
            => /\ tx[w].state = "open"
               /\ tx'[w] = tx[w]
               /\ existing'[w] = TxView(tx[w], pod[w]).episodes
         /\ Len(tx'[w].writes) > Len(tx[w].writes)
            => /\ tx[w].state = "open"
               /\ pc[w] \in {"meta", "item"}]_vars

\* an invocation at its commit with the metadata and an episode written
\* into the transaction it read the episodes from
StepOrderingWitness ==
    \E w \in Invocations :
        /\ pc[w] = "commit"
        /\ tx[w].state = "open"
        /\ Len(tx[w].writes) = 2
        /\ existing[w] = <<>>
        /\ feed[w] # None
        /\ GuardKey(pod[w]) \in syncMutex

\* C24: an entry is added to the sync log of a podcast only by the
\* invocation that holds the guard of that podcast, which still holds it
\* after the step; and when an attempt returns and releases the guard, the
\* latest entry of its podcast is the entry of that attempt.
LogBeforeRelease ==
    [][/\ \A p \in Podcasts :
            syncLogs'[p] # syncLogs[p]
            => /\ GuardKey(p) \in syncMutex /\ GuardKey(p) \in syncMutex'
               /\ \E w \in Invocations :
                    /\ pod[w] = p /\ pc[w] \in Running
                    /\ syncLogs'[p] = Append(syncLogs[p],
                                             syncLogs'[p][Len(syncLogs'[p])])
       /\ \A w \in Invocations :
            (pc[w] \in {"committed", "failed"} /\ pc'[w] = "idle")
            => /\ Len(LoggedSince(w)) >= 1
               /\ syncLogs[pod[w]][Len(syncLogs[pod[w]])].status
                    = IF pc[w] = "committed" THEN "success" ELSE "failure"]_vars

\* C25: an invocation that has loaded a podcast whose RSSUrl is empty is
\* Failed with the error "podcast has no RSS URL", has fetched nothing, has
\* no transaction, and the rows of the podcast are those it found; its next
\* step is the return, which frees the guard of the podcast.
NoFeedURLFailsFast ==
    [][\A w \in Invocations :
         /\ (podcast'[w] # None /\ podcast'[w].RSSUrl = "")
            => /\ pc'[w] = "failed"
               /\ ret'[w].err = "podcast has no RSS URL"
               /\ fetched'[w] = None /\ feed'[w] = None
               /\ tx'[w] = NoTx
               /\ podcasts'[pod'[w]] = before'[w].podcast
               /\ episodes'[pod'[w]] = before'[w].episodes
               /\ Len(syncLogs'[pod'[w]]) = before'[w].nlogs
         /\ (podcast[w] # None /\ podcast[w].RSSUrl = "" /\ pc'[w] # pc[w])
            => /\ pc'[w] = "idle"
               /\ GuardKey(pod[w]) \notin syncMutex'
               /\ store' = store]_vars

NoFeedURLWitness ==
    \E w \in Invocations :
        /\ pc[w] = "failed" /\ pod[w] = "p3"
        /\ podcast[w] # None /\ podcast[w].RSSUrl = ""
        /\ ret[w].err = "podcast has no RSS URL"
        /\ GuardKey("p3") \in syncMutex

\* C26: the step in which the write of one item fails counts nothing and
\* goes on to the next item or to the commit; and the commit that follows
\* a failed item write succeeds: the attempt is Committed, the rows the
\* transaction wrote are in the store and the latest log entry is a success.
ContinueOnError ==
    [][\A w \in Invocations :
         /\ (pc[w] = "item" /\ tx[w].state = "open"
                /\ tx'[w].state = "aborted")
            => /\ counts'[w] = counts[w]
               /\ pc'[w] \in {"item", "commit"}
               /\ idx'[w] = idx[w] + 1
         /\ (pc[w] = "commit" /\ tx[w].state = "aborted"
                /\ pc'[w] \in {"committed", "failed"})
            => /\ pc'[w] = "committed"
               /\ Rows(pod[w])' = TxView(tx[w], pod[w])
               /\ Len(syncLogs'[pod[w]]) = Len(syncLogs[pod[w]]) + 1
               /\ syncLogs'[pod[w]][Len(syncLogs'[pod[w]])].status
                    = "success"]_vars

\* C27: when an attempt writes its log entry, episodes_added is the number
\* of episode rows the store has gained since the attempt began and
\* episodes_updated the number of earlier rows that now differ; an entry
\* of an attempt whose changes were rolled back therefore records 0 and 0.
LogCountsMatchStore ==
    [][\A w \in Invocations :
         (pc[w] \in Running /\ Len(syncLogs'[pod[w]]) > Len(syncLogs[pod[w]]))
         => LET p == pod[w]
                e == syncLogs'[p][Len(syncLogs'[p])]
                old == before[w].episodes
            IN  /\ e.episodes_added = Len(episodes'[p]) - Len(old)
                /\ e.episodes_updated
                     = Cardinality({i \in 1..Len(old) :
                                      episodes'[p][i] # old[i]})]_vars

\* ------------------------------------------ usecase.go: UpdatePodcast
\* the fields of models.UpdatePodcastRequest that are texts
OwnerTextFields ==
    {"Title", "Description", "CoverImageURL", "WebsiteURL", "Language",
     "Category", "Subcategory"}

EmptyRequest ==
    [Title |-> "", Description |-> "", CoverImageURL |-> "",
     WebsiteURL |-> "", Language |-> "", Category |-> "", Subcategory |-> "",
     Explicit |-> FALSE]

OwnerRequests ==
    { [EmptyRequest EXCEPT !.WebsiteURL = "ow"],
      [EmptyRequest EXCEPT !.Category = "oc", !.Explicit = TRUE],
      [EmptyRequest EXCEPT !.Title = "OT"] }

\* usecase.go:181-204: the fields of the request that are not empty, and
\* the explicit flag, replace those of the loaded podcast
ApplyRequest(row, req) ==
    [f \in DOMAIN row |->
       IF f \in OwnerTextFields
       THEN IF req[f] # "" THEN req[f] ELSE row[f]
       ELSE IF f = "Explicit" THEN req.Explicit ELSE row[f]]

\* repository.go:462-500: the columns of the UPDATE statement
UpdatePodcast(stored, row) ==
    [stored EXCEPT !.Title = row.Title, !.Description = row.Description,
                   !.CoverImageURL = row.CoverImageURL,
                   !.WebsiteURL = row.WebsiteURL, !.Language = row.Language,
                   !.Author = row.Author, !.Category = row.Category,
                   !.Subcategory = row.Subcategory,
                   !.Explicit = row.Explicit, !.Status = row.Status]

\* a transaction that has updated the row of podcast p holds its row lock
\* until it ends
RowLocked(p) ==
    \E w \in Invocations :
        /\ pod[w] = p
        /\ tx[w].state \in {"open", "aborted"}
        /\ \E i \in 1..Len(tx[w].writes) : tx[w].writes[i].op = "podcast"

\* usecase.go:171-174: GetPodcastByID
OwnerGetPodcast(p, req) ==
    /\ owner.state = "idle"
    /\ owner' = [state |-> "loaded", req |-> req, row |-> podcasts[p],
                 during |-> 0]
    /\ UNCHANGED <<syncMutex, store, clock, pc, pod, locals, defers, ret,
                   before, lastSynced, syncAll, ctx, periodic>>

\* usecase.go:177-210: the authorization check, the fields of the request
\* and repo.UpdatePodcast, a single statement; during is the time of the
\* call of a sync of p that has loaded the row and is still running
OwnerUpdatePodcast(p) ==
    /\ owner.state = "loaded"
    /\ owner.row.ID = p
    /\ ~RowLocked(p)
    /\ \E ok \in BOOLEAN :
         IF ok /\ owner.row.PodcasterID = "owner"
         THEN /\ podcasts' = [podcasts EXCEPT ![p] =
                               UpdatePodcast(@, ApplyRequest(owner.row,
                                                             owner.req))]
              /\ owner' = [owner EXCEPT
                             !.state = "done",
                             !.during =
                                IF \E w \in Invocations :
                                      /\ pod[w] = p /\ pc[w] \in Running
                                      /\ podcast[w] # None
                                THEN clock ELSE 0]
         ELSE /\ podcasts' = podcasts
              /\ owner' = [owner EXCEPT !.state = "failed"]
    /\ UNCHANGED <<syncMutex, episodes, syncLogs, clock, pc, pod, locals,
                   defers, ret, before, lastSynced, syncAll, ctx, periodic>>

\* One sync of podcast p1 at a time while its owner edits the podcast.
NextOwner ==
    \/ SyncPodcast("w1", "p1", MaxReconCalls) /\ UNCHANGED callers
    \/ LoadPodcast("w1") /\ UNCHANGED callers
    \/ \E resp \in ReconResponses : FetchFeed("w1", resp) /\ UNCHANGED callers
    \/ BeginTx("w1") /\ UNCHANGED callers
    \/ UpdateMetadata("w1") /\ UNCHANGED callers
    \/ LoadEpisodes("w1") /\ UNCHANGED callers
    \/ ProcessItem("w1") /\ UNCHANGED callers
    \/ Commit("w1") /\ UNCHANGED callers
    \/ Return("w1") /\ UNCHANGED callers
    \/ \E req \in OwnerRequests : OwnerGetPodcast("p1", req)
    \/ OwnerUpdatePodcast("p1")

SpecOwner == Init /\ [][NextOwner]_vars

\* C28: when a sync commits and the owner's UpdatePodcast has committed
\* while that sync was running with the podcast row loaded, every text
\* field the owner's request set, for which the feed has no value or the
\* value the sync loaded, holds the owner's value in the committed row.
NoLostUpdate ==
    [][\A w \in Invocations :
         (/\ pc[w] = "commit" /\ pc'[w] = "committed"
          /\ owner.state = "done" /\ owner.during = clock
          /\ owner.row.ID = pod[w])
         => \A f \in OwnerTextFields :
              (/\ owner.req[f] # ""
               /\ feed[w][f] = "" \/ feed[w][f] = podcast[w][f])
              => podcasts'[pod[w]][f] = owner.req[f]]_vars

\* ------------------------------- main.go:154-182: the periodic task
\* the pass started with a go statement: the loop does not wait for it
CallPassDetached(g) ==
    [g EXCEPT !.pc = "range", !.passes = @ + 1,
              !.running = @ \cup {g.passes + 1}]

\* lines 166 and 176: the goroutine calls SyncAllPodcasts and waits for
\* its return; running is the set of passes that have not returned
CallPass(g) ==
    [g EXCEPT !.pc = "pass", !.passes = @ + 1,
              !.running = @ \cup {g.passes + 1}]

\* the body of a pass; a pass called while another has not returned is
\* only recorded in running
PassBody ==
    IF periodic.running = {}
    THEN SyncAllPodcasts
    ELSE UNCHANGED <<syncAll, syncMutex, store, clock, pc, pod, locals,
                     defers, ret, before, lastSynced>>

\* lines 157-160: the initial delay is over and the ticker is created
WakeUp ==
    /\ periodic.pc = "sleep"
    /\ periodic' = [periodic EXCEPT !.pc = "initial"]
    /\ UNCHANGED <<syncMutex, store, clock, pc, pod, locals, defers, ret,
                   before, lastSynced, syncAll, ctx, owner>>

\* the ticker fires: ticker.C holds one tick, further ticks are dropped
Tick ==
    /\ periodic.pc # "sleep"
    /\ ~periodic.tick
    /\ periodic' = [periodic EXCEPT !.tick = TRUE]
    /\ UNCHANGED <<syncMutex, store, clock, pc, pod, locals, defers, ret,
                   before, lastSynced, syncAll, ctx, owner>>

\* lines 164-171: the pass at startup
InitialPass ==
    /\ periodic.pc = "initial"
    /\ periodic' = CallPass(periodic)
    /\ PassBody
    /\ UNCHANGED <<ctx, owner>>

\* lines 174-181: for range ticker.C takes a tick and runs a pass
ScheduledPass ==
    /\ periodic.pc = "range"
    /\ periodic.tick
    /\ periodic.passes < MaxPasses
    /\ periodic' = [CallPass(periodic) EXCEPT !.tick = FALSE]
    /\ PassBody
    /\ UNCHANGED <<ctx, owner>>

\* SyncAllPodcasts returns to the goroutine (lines 166-170, 176-180)
PassReturn ==
    /\ periodic.pc = "pass"
    /\ syncAll.state = "done"
    /\ periodic' = [periodic EXCEPT !.pc = "range",
                                    !.running = @ \ {periodic.passes}]
    /\ syncAll' = NoSyncAll
    /\ UNCHANGED <<syncMutex, store, clock, pc, pod, locals, defers, ret,
                   before, lastSynced, ctx, owner>>

\* The periodic task alone: its passes and the syncs they call (w1).
NextPeriodic ==
    \/ WakeUp
    \/ Tick
    \/ InitialPass
    \/ ScheduledPass
    \/ PassReturn
    \/ SyncAllNext /\ UNCHANGED <<ctx, owner, periodic>>
    \/ SyncAllCollect /\ UNCHANGED <<ctx, owner, periodic>>
    \/ LoadPodcast("w1") /\ UNCHANGED callers
    \/ \E resp \in FewResponses : FetchFeed("w1", resp) /\ UNCHANGED callers
    \/ BeginTx("w1") /\ UNCHANGED callers
    \/ UpdateMetadata("w1") /\ UNCHANGED callers
    \/ LoadEpisodes("w1") /\ UNCHANGED callers
    \/ ProcessItem("w1") /\ UNCHANGED callers
    \/ Commit("w1") /\ UNCHANGED callers

SpecPeriodic == InitAll /\ [][NextPeriodic]_vars

\* C29: the periodic task starts a pass only when no pass of its own is
\* running and the previous one has returned, and at most one of its
\* passes is running at any time, whatever ticks arrive during a pass.
PassesNeverOverlap ==
    [][/\ periodic'.passes > periodic.passes
          => /\ periodic.running = {}
             /\ syncAll.state = "idle"
             /\ periodic'.running = {periodic'.passes}
       /\ Cardinality(periodic'.running) <= 1
       /\ syncAll'.state # "idle" => periodic'.running # {}]_vars

PassesNeverOverlapWitness ==
    /\ periodic.passes = 2
    /\ periodic.pc = "pass"
    /\ periodic.tick
    /\ periodic.running = {2}
    /\ syncAll.state = "running"
    /\ Len(syncAll.results) >= 1

\* ------------------------------------------------------- termination
\* the invocation takes its next step: a call it waits for returns, or it
\* goes on to the next item, or it returns to its caller
Progress(w) ==
    /\ NextCancel
    /\ pc[w] # "idle"
    /\ <<pc[w], idx[w]>>' # <<pc[w], idx[w]>>

\* a step that cannot be held up by the store or the feed's server: the
\* call is given a context that is done and returns its error, or the sync
\* is over and the function returns
Unblocked(w) == Progress(w) /\ (ctx[w] = "done" \/ pc[w] \in Ended)

\* The goroutine is scheduled fairly and the timeout of its context is
\* finite (handlers.go:351, main.go:164 and 175); a query, a request or a
\* statement whose context is live may take for ever.
SpecLive ==
    /\ SpecCancel
    /\ WF_vars(Cancel("w1"))
    /\ WF_vars(Unblocked("w1"))

\* C30: an invocation that is Running is later Committed or Failed, and a
\* guard that is held is later free.
Termination ==
    /\ \A w \in Invocations :
         (pc[w] \in Running) ~> (pc[w] \in {"committed", "failed"})
    /\ \A p \in Podcasts :
         (GuardKey(p) \in syncMutex) ~> (GuardKey(p) \notin syncMutex)

TerminationWitness ==
    \E w \in Invocations :
        /\ pc[w] \in {"item", "commit"}
        /\ ctx[w] = "done"
        /\ tx[w].state = "open" /\ Len(tx[w].writes) >= 1
        /\ GuardKey(pod[w]) \in syncMutex

====
